---- MODULE Spec2Model ----
(***************************************************************************)
(* Model of centrifuge/handlers.py: ApiHandler.post, the signed-command    *)
(* pipeline of the HTTP API, and SockjsConnection, the lifecycle of a      *)
(* persistent client connection.  One invocation of the coroutine is a record  *)
(* (the handler instance plus the coroutine frame); it advances from one   *)
(* suspension point (yield) to the next in one atomic step.                *)
(*                                                                         *)
(* handler   one invocation of post on its own (specification Spec)        *)
(* handlers  the invocations in flight on one IOLoop, hung those whose     *)
(*           pending collaborator never answers (specification SpecConc)   *)
(* conns     the SockjsConnection instances, clients the Client objects    *)
(*           created so far, signals the number of transport callbacks     *)
(*           delivered (specification SpecConn)                            *)
(***************************************************************************)
EXTENDS Naturals, Sequences, FiniteSets, TLC

VARIABLES handler, handlers, hung, conns, clients, signals

apiVars == <<handler>>
concVars == <<handlers, hung>>
connVars == <<conns, clients, signals>>

vars == <<handler, handlers, hung, conns, clients, signals>>

(***************************************************************************)
(* Python values.  None is a string token; strings are themselves.         *)
(***************************************************************************)
None == "None"

\* Python truthiness of an optional string (`if error:`, `if not sign:`).
Truthy(x) == x # None /\ x # ""

(***************************************************************************)
(* Request inputs.                                                         *)
(***************************************************************************)
ProjectIds == {"p1", "p2"}

\* What the request carries as authentication data.
AuthHeaders == {"absent", "nosign", "emptysign", "sign=s1", "sign=s2"}

\* auth.extract_auth_info(request) -> (auth_info, error)
extract_auth_info(headers) ==
    CASE headers = "absent"    -> [auth_info |-> [sign |-> None], error |-> "no auth header found"]
      [] headers = "nosign"    -> [auth_info |-> [sign |-> None], error |-> None]
      [] headers = "emptysign" -> [auth_info |-> [sign |-> ""],   error |-> None]
      [] headers = "sign=s1"   -> [auth_info |-> [sign |-> "s1"], error |-> None]
      [] headers = "sign=s2"   -> [auth_info |-> [sign |-> "s2"], error |-> None]

(***************************************************************************)
(* Decoded values.  A decoded value is a record: kind is the Python type   *)
(* ("None" when decoding failed), size its len(), and for a dict the three *)
(* envelope keys, each Missing when the key is absent.                     *)
(***************************************************************************)
Missing == "<missing>"

Value(kind, size, uid, method, params) ==
    [kind |-> kind, size |-> size, uid |-> uid, method |-> method, params |-> params]

NoData == Value("None", 0, Missing, Missing, Missing)

Envelope(uid, method, params) ==
    Value("dict", Cardinality({k \in {<<1, uid>>, <<2, method>>, <<3, params>>} : k[2] # Missing}),
          uid, method, params)

\* Tokens standing for JSON values of the envelope's fields, with their types.
StringTokens == {"u1", "u2", "subscribe", "publish", "nosuch"}
DictTokens == {"{channel:news}", "{channel:5}", "{}", "{channel:news,data:x}"}

\* The raw bodies a request may carry and what auth.decode_data makes of them.
BodyTable ==
    [b \in {"", "%%", "{}", "[1]", "E-sub", "E-sub-nouid", "E-pub", "E-nosuch",
            "E-nosuch-nouid", "E-badparams", "E-noparams", "E-intmethod", "E-nomethod"} |->
       CASE b = ""               -> NoData
         [] b = "%%"             -> NoData
         [] b = "{}"             -> Envelope(Missing, Missing, Missing)
         [] b = "[1]"            -> Value("list", 1, Missing, Missing, Missing)
         [] b = "E-sub"          -> Envelope("u1", "subscribe", "{channel:news}")
         [] b = "E-sub-nouid"    -> Envelope(Missing, "subscribe", "{channel:news}")
         [] b = "E-pub"          -> Envelope("u2", "publish", "{channel:news,data:x}")
         [] b = "E-nosuch"       -> Envelope("u1", "nosuch", "{}")
         [] b = "E-nosuch-nouid" -> Envelope(Missing, "nosuch", "{channel:news}")
         [] b = "E-badparams"    -> Envelope("u2", "subscribe", "{channel:5}")
         [] b = "E-noparams"     -> Envelope("u1", "subscribe", Missing)
         [] b = "E-intmethod"    -> Envelope("u2", "5", "{}")
         [] b = "E-nomethod"     -> Envelope("u1", Missing, "{channel:news}")]

Bodies == DOMAIN BodyTable

\* auth.decode_data(encoded_data): the decoded value, None when not parseable.
decode_data(encoded_data) == BodyTable[encoded_data]

\* Python truthiness of a decoded value (`if not data:`): None and empty
\* containers are false.
TruthyData(data) == data.kind # "None" /\ data.size > 0

\* dict.get(key, None)
Get(field) == IF field = Missing THEN None ELSE field

(***************************************************************************)
(* Schemas.  validate(instance, schema) raises ValidationError(message) or *)
(* returns; here it yields the message, None when the instance is valid.   *)
(***************************************************************************)
validate_req_schema(data) ==
    IF data.kind # "dict" THEN "instance is not of type 'object'"
    ELSE IF data.method = Missing THEN "'method' is a required property"
    ELSE IF data.params = Missing THEN "'params' is a required property"
    ELSE IF data.method \notin StringTokens THEN "method is not of type 'string'"
    ELSE IF data.params \notin DictTokens THEN "params is not of type 'object'"
    ELSE IF data.uid # Missing /\ data.uid \notin StringTokens THEN "uid is not of type 'string'"
    ELSE None

\* The command schema registry: method name -> the params it accepts.
admin_params_schema ==
    [m \in {"subscribe", "publish"} |->
       IF m = "subscribe" THEN {"{channel:news}"} ELSE {"{channel:news,data:x}"}]

validate_params(params, method) ==
    IF params \in admin_params_schema[method] THEN None
    ELSE "params do not match the schema of the method"

(***************************************************************************)
(* Response (core.Response) and its message form.                          *)
(***************************************************************************)
Response == [uid |-> None, method |-> None, body |-> None, error |-> None]

as_message(response) ==
    [uid |-> response.uid, method |-> response.method,
     body |-> response.body, error |-> response.error]

(***************************************************************************)
(* Answers of the external collaborators.                                  *)
(***************************************************************************)
ProjectOf(project_id) == IF project_id = "p1" THEN "project-p1" ELSE "project-p2"

ProjectAnswers(project_id) == {None, ProjectOf(project_id)}
ResolverErrors == {None, "registry error"}
VerifierResults == BOOLEAN
VerifierErrors == {None, "verifier error"}
ProcessorResults == {None, "result"}
ProcessorErrors == {None, "processor error"}

(***************************************************************************)
(* One invocation of ApiHandler.post.                                      *)
(***************************************************************************)
NewHandler(project_id, headers, body) ==
    [pc |-> "start",
     project_id |-> project_id, headers |-> headers, body |-> body,
     sign |-> None, project |-> None, encoded_data |-> None,
     data |-> NoData, has_response |-> FALSE, response |-> Response,
     calls |-> <<>>, faults |-> <<>>, sent |-> <<>>]

\* A collaborator is invoked: recorded in order with its arguments; ret is
\* what it returned, empty while the call has not returned.
Call(h, op, args) ==
    [h EXCEPT !.calls = Append(@, [op |-> op, args |-> args, ret |-> <<>>])]

\* The pending call (the last one recorded) returns ret.
Return(h, ret) == [h EXCEPT !.calls[Len(h.calls)].ret = ret]

\* raise tornado.web.HTTPError(status, log_message=...): the coroutine ends
\* and the transport answers with the status code.
HTTPError(h, status, log_message) ==
    [h EXCEPT !.faults = Append(@, [status |-> status, log_message |-> log_message]),
              !.pc = "done"]

\* self.json_response(response.as_message())
json_response(h) ==
    [Call(h, "json_response", <<>>) EXCEPT !.sent = Append(@, as_message(h.response)),
                                            !.pc = "done"]

\* Variant: on a processor error the answer is built from a fresh Response.
AfterProcessCall_FreshOnError(h, result, error) ==
    IF error # None
    THEN json_response([h EXCEPT !.response = [Response EXCEPT !.error = error]])
    ELSE json_response([h EXCEPT !.response.body = result, !.response.error = error])

\* Stage 10, second half: the processor answered.
AfterProcessCall(h, result, error) ==
    json_response([h EXCEPT !.response.body = result, !.response.error = error])

\* Stage 10, first half: yield self.application.process_call(project, method, params)
Dispatch(h, method, params) ==
    [Call(h, "process_call", <<h.project, method, params>>) EXCEPT !.pc = "process_call"]

\* Variant: the else branch is lost, the processor is called after a
\* validation error too.
ValidateParams_NoElse(h, method, params) ==
    LET e  == validate_params(params, method)
        h1 == Call(h, "validate_params", <<method>>)
    IN IF e # None
       THEN Dispatch([h1 EXCEPT !.response.error = e], method, params)
       ELSE Dispatch(h1, method, params)

\* Stage 9: validate(params, admin_params_schema[method])
ValidateParams(h, method, params) ==
    LET e  == validate_params(params, method)
        h1 == Call(h, "validate_params", <<method>>)
    IN IF e # None
       THEN json_response([h1 EXCEPT !.response.error = e])
       ELSE Dispatch(h1, method, params)

\* Variant: uid and method are copied only once the method is known.
ResolveMethod_CopyLate(h) ==
    LET req_id == Get(h.data.uid)
        method == Get(h.data.method)
        params == Get(h.data.params)
    IN IF method \notin DOMAIN admin_params_schema
       THEN json_response([h EXCEPT !.response.error = "method not found"])
       ELSE ValidateParams([h EXCEPT !.response.uid = req_id, !.response.method = method],
                           method, params)

\* Stage 8: uid and method are copied, the method is looked up.
ResolveMethod(h) ==
    LET req_id == Get(h.data.uid)
        method == Get(h.data.method)
        params == Get(h.data.params)
        h1     == [h EXCEPT !.response.uid = req_id, !.response.method = method]
    IN IF method \notin DOMAIN admin_params_schema
       THEN json_response([h1 EXCEPT !.response.error = "method not found"])
       ELSE ValidateParams(h1, method, params)

\* Variant: uid and method are copied before the envelope is validated.
ValidateEnvelope_CopyEarly(h) ==
    LET e  == validate_req_schema(h.data)
        h1 == Call([h EXCEPT !.has_response = TRUE,
                             !.response = [Response EXCEPT !.uid = Get(h.data.uid),
                                                           !.method = Get(h.data.method)]],
                   "validate_req", <<>>)
    IN IF e # None
       THEN json_response([h1 EXCEPT !.response.error = e])
       ELSE ResolveMethod(h1)

\* Stage 7: response = Response(); validate(data, req_schema)
ValidateEnvelope(h) ==
    LET e  == validate_req_schema(h.data)
        h1 == Call([h EXCEPT !.has_response = TRUE, !.response = Response],
                   "validate_req", <<>>)
    IN IF e # None
       THEN json_response([h1 EXCEPT !.response.error = e])
       ELSE ResolveMethod(h1)

\* Variant: the 400 is sent without leaving the coroutine (send_error with no
\* return), so the pipeline goes on and answers a second time.
Decode_NoReturn(h) ==
    LET data == decode_data(h.encoded_data)
        h1   == [Call(h, "decode_data", <<h.encoded_data>>) EXCEPT !.data = data]
    IN IF ~TruthyData(data)
       THEN ValidateEnvelope([h1 EXCEPT !.faults = Append(@, [status |-> 400,
                                                  log_message |-> "malformed data"])])
       ELSE ValidateEnvelope(h1)

\* Stage 6: data = auth.decode_data(encoded_data)
Decode(h) ==
    LET data == decode_data(h.encoded_data)
        h1   == [Call(h, "decode_data", <<h.encoded_data>>) EXCEPT !.data = data]
    IN IF ~TruthyData(data)
       THEN HTTPError(h1, 400, "malformed data")
       ELSE ValidateEnvelope(h1)

\* Variant: the body is decoded before the verifier's result is looked at.
AfterCheckAuth_DecodeFirst(h, result, error) ==
    IF Truthy(error) THEN HTTPError(h, 500, error)
    ELSE IF ~result
         THEN HTTPError(Call(h, "decode_data", <<h.encoded_data>>), 401, "unauthorized")
         ELSE Decode(h)

\* Stage 5, second half: the verifier answered.
AfterCheckAuth(h, result, error) ==
    IF Truthy(error) THEN HTTPError(h, 500, error)
    ELSE IF ~result THEN HTTPError(h, 401, "unauthorized")
    ELSE Decode(h)

\* Variant: the verifier is given a re-encoding of the body, not the raw body.
VerifySignature_Reencoded(h) ==
    LET h1 == [h EXCEPT !.encoded_data = h.body]
    IN IF h1.encoded_data = ""
       THEN HTTPError(h1, 400, "no request body")
       ELSE [Call(h1, "check_auth", <<h1.project, h1.sign, "reencoded">>)
               EXCEPT !.pc = "check_auth"]

\* Stage 5, first half: yield structure.check_auth(project, sign, encoded_data)
VerifySignature(h) ==
    LET h1 == [h EXCEPT !.encoded_data = h.body]
    IN IF h1.encoded_data = ""
       THEN HTTPError(h1, 400, "no request body")
       ELSE [Call(h1, "check_auth", <<h1.project, h1.sign, h1.encoded_data>>)
               EXCEPT !.pc = "check_auth"]

\* Variant: the project is tested before the error.
AfterGetProject_ProjectFirst(h, project, error) ==
    LET h1 == [h EXCEPT !.project = project]
    IN IF ~Truthy(project) THEN HTTPError(h1, 404, "project not found")
       ELSE IF Truthy(error) THEN HTTPError(h1, 500, error)
       ELSE VerifySignature(h1)

\* Stage 4, second half: the registry answered.
AfterGetProject(h, project, error) ==
    LET h1 == [h EXCEPT !.project = project]
    IN IF Truthy(error) THEN HTTPError(h1, 500, error)
       ELSE IF ~Truthy(project) THEN HTTPError(h1, 404, "project not found")
       ELSE VerifySignature(h1)

\* Stage 4, first half: yield structure.get_project_by_id(project_id)
ResolveProject(h) ==
    [Call(h, "get_project_by_id", <<h.project_id>>) EXCEPT !.pc = "get_project_by_id"]

\* Variant: only a missing sign is rejected (`sign is None`), an empty one passes.
CheckSign_NoneOnly(h, auth_info) ==
    LET h1 == [h EXCEPT !.sign = auth_info.sign]
    IN IF h1.sign = None THEN HTTPError(h1, 401, "unauthorized")
       ELSE ResolveProject(h1)

\* Stage 3: sign = auth_info.get('sign')
CheckSign(h, auth_info) ==
    LET h1 == [h EXCEPT !.sign = auth_info.sign]
    IN IF ~Truthy(h1.sign) THEN HTTPError(h1, 401, "unauthorized")
       ELSE ResolveProject(h1)

\* Stage 2: auth_info, error = auth.extract_auth_info(self.request)
ExtractAuth(h) ==
    LET r  == extract_auth_info(h.headers)
        h1 == Call(h, "extract_auth_info", <<>>)
    IN IF Truthy(r.error) THEN HTTPError(h1, 401, r.error)
       ELSE CheckSign(h1, r.auth_info)

\* Stage 1: if not self.request.body
CheckBody(h) ==
    IF h.body = "" THEN HTTPError(h, 400, "empty request")
    ELSE ExtractAuth(h)

(***************************************************************************)
(* The state machine.                                                      *)
(***************************************************************************)
\* The values of the variables a specification does not use.
IdleHandler == NewHandler("p1", "absent", "")
IdleConc == handlers = <<>> /\ hung = {}
IdleConn == conns = <<>> /\ clients = <<>> /\ signals = 0

Init ==
    /\ \E project_id \in ProjectIds, headers \in AuthHeaders, body \in Bodies :
          handler = NewHandler(project_id, headers, body)
    /\ IdleConc
    /\ IdleConn

\* post is entered and runs to its first suspension point or to its end.
Post ==
    /\ handler.pc = "start"
    /\ handler' = CheckBody(handler)
    /\ UNCHANGED <<concVars, connVars>>

ResumeGetProjectById ==
    /\ handler.pc = "get_project_by_id"
    /\ \E project \in ProjectAnswers(handler.project_id), error \in ResolverErrors :
          handler' = AfterGetProject(Return(handler, <<project, error>>), project, error)
    /\ UNCHANGED <<concVars, connVars>>

ResumeCheckAuth ==
    /\ handler.pc = "check_auth"
    /\ \E result \in VerifierResults, error \in VerifierErrors :
          handler' = AfterCheckAuth(Return(handler, <<result, error>>), result, error)
    /\ UNCHANGED <<concVars, connVars>>

ResumeProcessCall ==
    /\ handler.pc = "process_call"
    /\ \E result \in ProcessorResults, error \in ProcessorErrors :
          handler' = AfterProcessCall(Return(handler, <<result, error>>), result, error)
    /\ UNCHANGED <<concVars, connVars>>

Next == Post \/ ResumeGetProjectById \/ ResumeCheckAuth \/ ResumeProcessCall

Spec == Init /\ [][Next]_vars

(***************************************************************************)
(* Several invocations of post in flight on one IOLoop.  The loop runs one *)
(* callback at a time: an invocation runs from one yield to the next       *)
(* without preemption, and while it waits at a yield the others may run.   *)
(***************************************************************************)
NumInvocations == 2

Invocations == 1..NumInvocations

\* The requests of the concurrent runs.
ConcRequests ==
    {NewHandler("p1", headers, body) :
        headers \in {"nosign", "sign=s1"}, body \in {"", "E-sub", "E-nosuch"}}

\* Variant: calls are blocking, so an invocation cannot run while the pending
\* call of another one holds the thread.
Runnable_Blocking(hs, i) ==
    /\ hs[i].pc # "done"
    /\ \A j \in DOMAIN hs : j # i => hs[j].pc \in {"start", "done"}

\* Whether the loop can run invocation i: a coroutine that has not finished
\* can be entered or resumed whatever the other invocations are waiting for.
Runnable(hs, i) == hs[i].pc # "done"

\* Variant: the project of another invocation for the same id is reused and
\* the registry's answer ignored (a cache kept across invocations).
ConcAfterGetProject_Cached(hs, i, project, error) ==
    LET h == Return(hs[i], <<project, error>>)
        cached == {hs[j].project : j \in {k \in DOMAIN hs : /\ k # i
                                                            /\ hs[k].project_id = h.project_id
                                                            /\ Truthy(hs[k].project)}}
    IN IF cached # {}
       THEN VerifySignature([h EXCEPT !.project = CHOOSE c \in cached : TRUE])
       ELSE AfterGetProject(h, project, error)

\* Invocation i receives the registry's answer: only its own frame is read
\* and written.
ConcAfterGetProject(hs, i, project, error) ==
    AfterGetProject(Return(hs[i], <<project, error>>), project, error)

InitConc ==
    /\ handlers \in [Invocations -> ConcRequests]
    /\ hung \in SUBSET Invocations
    /\ handler = IdleHandler
    /\ IdleConn

ConcPost(i) ==
    /\ Runnable(handlers, i)
    /\ handlers[i].pc = "start"
    /\ handlers' = [handlers EXCEPT ![i] = CheckBody(handlers[i])]
    /\ UNCHANGED <<hung, handler, connVars>>

ConcResumeGetProjectById(i) ==
    /\ Runnable(handlers, i)
    /\ i \notin hung
    /\ handlers[i].pc = "get_project_by_id"
    /\ \E project \in ProjectAnswers(handlers[i].project_id), error \in ResolverErrors :
          handlers' = [handlers EXCEPT ![i] = ConcAfterGetProject(handlers, i, project, error)]
    /\ UNCHANGED <<hung, handler, connVars>>

ConcResumeCheckAuth(i) ==
    /\ Runnable(handlers, i)
    /\ i \notin hung
    /\ handlers[i].pc = "check_auth"
    /\ \E result \in VerifierResults, error \in VerifierErrors :
          handlers' = [handlers EXCEPT ![i] =
                          AfterCheckAuth(Return(handlers[i], <<result, error>>), result, error)]
    /\ UNCHANGED <<hung, handler, connVars>>

ConcResumeProcessCall(i) ==
    /\ Runnable(handlers, i)
    /\ i \notin hung
    /\ handlers[i].pc = "process_call"
    /\ \E result \in ProcessorResults, error \in ProcessorErrors :
          handlers' = [handlers EXCEPT ![i] =
                          AfterProcessCall(Return(handlers[i], <<result, error>>), result, error)]
    /\ UNCHANGED <<hung, handler, connVars>>

ConcStep(i) ==
    ConcPost(i) \/ ConcResumeGetProjectById(i) \/ ConcResumeCheckAuth(i)
        \/ ConcResumeProcessCall(i)

ConcNext == \E i \in Invocations : ConcStep(i)

\* The loop runs every callback that is ready: an invocation that can take a
\* step (it was received, or the call it waits for has answered) takes it.
SpecConc == InitConc /\ [][ConcNext]_vars /\ \A i \in Invocations : WF_vars(ConcStep(i))

(***************************************************************************)
(* SockjsConnection.  A connection is built by the transport with its      *)
(* session (absent, or valid with a transport name); the transport then    *)
(* calls on_open once and on_message and on_close as events arrive.  The   *)
(* Client objects live in a heap, clients, in order of creation; a         *)
(* connection's client attribute holds the index of its Client, and        *)
(* has_client says whether the attribute exists.                           *)
(***************************************************************************)
NumConns == 2
MaxSignals == 5

Conns == 1..NumConns

\* The session of a connection: None when invalid or absent, else the name
\* of its transport.
Sessions == {None, "websocket", "xhr_streaming", "rawwebsocket"}

Messages == {"m1", "m2"}

NewConn(session) ==
    [session |-> session, opened |-> FALSE, state |-> "CLOSED",
     has_client |-> FALSE, client |-> 0,
     heartbeats |-> 0, close_calls |-> 0, close_signals |-> 0,
     delivered |-> <<>>, events |-> <<>>, errors |-> <<>>]

\* state is the transport's state of the connection (CLOSED, OPEN, CLOSED);
\* delivered, events and errors record what the callbacks were given, did to
\* the Client and raised.

\* Client(self, info)
Client(c, info) == [conn |-> c, info |-> info, received |-> <<>>, closes |-> 0]

\* An exception leaves the callback: nothing after the failing statement runs.
Raise(w, c, where, error) ==
    [w EXCEPT !.conns[c].errors = Append(@, [where |-> where, error |-> error])]

\* SockJSConnection.close(): the transport closes the connection.
close(w, c) ==
    [w EXCEPT !.conns[c].close_calls = @ + 1, !.conns[c].state = "CLOSED"]

\* session.start_heartbeat()
start_heartbeat(w, c) == [w EXCEPT !.conns[c].heartbeats = @ + 1]

\* Variant: the heartbeat is started for every transport.
on_open_AlwaysHeartbeat(w, c, info) ==
    LET w1 == [w EXCEPT !.clients = Append(@, Client(c, info)),
                        !.conns[c].client = Len(w.clients) + 1,
                        !.conns[c].has_client = TRUE,
                        !.conns[c].opened = TRUE]
    IN IF w1.conns[c].session # None
       THEN start_heartbeat([w1 EXCEPT !.conns[c].state = "OPEN"], c)
       ELSE close(w1, c)

\* SockjsConnection.on_open(info)
on_open(w, c, info) ==
    LET w1 == [w EXCEPT !.clients = Append(@, Client(c, info)),
                        !.conns[c].client = Len(w.clients) + 1,
                        !.conns[c].has_client = TRUE,
                        !.conns[c].opened = TRUE]
    IN IF w1.conns[c].session # None
       THEN IF w1.conns[c].session # "rawwebsocket"
            THEN start_heartbeat([w1 EXCEPT !.conns[c].state = "OPEN"], c)
            ELSE [w1 EXCEPT !.conns[c].state = "OPEN"]
       ELSE close(w1, c)

\* Variant: client is an attribute of the class, shared by the instances, so
\* the Client reached is the one created last.
self_client_Shared(w, c) == Len(w.clients)

\* self.client: the Client bound to this connection.
self_client(w, c) == w.conns[c].client

\* client.message_received(message)
message_received(w, k, message) == [w EXCEPT !.clients[k].received = Append(@, message)]

\* Variant: a message equal to the one before it is taken for a repeat and
\* not forwarded.
on_message_Dedup(w, c, message) ==
    LET w1 == [w EXCEPT !.conns[c].delivered = Append(@, message)]
        d  == w.conns[c].delivered
    IN IF ~w1.conns[c].has_client
       THEN Raise(w1, c, "on_message", "AttributeError")
       ELSE IF d # <<>> /\ d[Len(d)] = message THEN w1
       ELSE message_received(w1, self_client(w1, c), message)

\* SockjsConnection.on_message(message)
on_message(w, c, message) ==
    LET w1 == [w EXCEPT !.conns[c].delivered = Append(@, message)]
    IN IF ~w1.conns[c].has_client
       THEN Raise(w1, c, "on_message", "AttributeError")
       ELSE message_received(w1, self_client(w1, c), message)

\* Variant: the Client is closed but the attribute is kept.
on_close_NoDel(w, c) ==
    LET w1 == [w EXCEPT !.conns[c].close_signals = @ + 1, !.conns[c].state = "CLOSED"]
    IN IF ~w1.conns[c].has_client
       THEN Raise(w1, c, "on_close", "AttributeError")
       ELSE [w1 EXCEPT !.clients[self_client(w1, c)].closes = @ + 1,
                       !.conns[c].events = Append(@, "client.close")]

\* SockjsConnection.on_close(): self.client.close(), then del self.client
on_close(w, c) ==
    LET w1 == [w EXCEPT !.conns[c].close_signals = @ + 1, !.conns[c].state = "CLOSED"]
    IN IF ~w1.conns[c].has_client
       THEN Raise(w1, c, "on_close", "AttributeError")
       ELSE LET w2 == [w1 EXCEPT !.clients[self_client(w1, c)].closes = @ + 1,
                                 !.conns[c].events = Append(@, "client.close")]
            IN [w2 EXCEPT !.conns[c].has_client = FALSE,
                          !.conns[c].client = 0,
                          !.conns[c].events = Append(@, "del client")]

World == [conns |-> conns, clients |-> clients]

\* The transport delivers a callback: the connection and the heap become w.
Becomes(w) ==
    /\ conns' = w.conns
    /\ clients' = w.clients
    /\ signals' = signals + 1
    /\ UNCHANGED <<apiVars, concVars>>

InitConn ==
    /\ conns \in [Conns -> {NewConn(session) : session \in Sessions}]
    /\ clients = <<>>
    /\ signals = 0
    /\ handler = IdleHandler
    /\ IdleConc

OnOpen(c) ==
    /\ signals < MaxSignals
    /\ ~conns[c].opened
    /\ Becomes(on_open(World, c, "info"))

OnMessage(c) ==
    /\ signals < MaxSignals
    /\ conns[c].opened
    /\ \E message \in Messages : Becomes(on_message(World, c, message))

OnClose(c) ==
    /\ signals < MaxSignals
    /\ conns[c].opened
    /\ Becomes(on_close(World, c))

ConnNext == \E c \in Conns : OnOpen(c) \/ OnMessage(c) \/ OnClose(c)

SpecConn == InitConn /\ [][ConnNext]_vars

(***************************************************************************)
(* Reading the record of an invocation.                                    *)
(***************************************************************************)
CallOps == [i \in 1..Len(handler.calls) |-> handler.calls[i].op]

Called(op) == \E i \in 1..Len(handler.calls) : handler.calls[i].op = op

\* What the call of op returned; empty when op was not called or is pending.
Ret(op) ==
    LET idx == {i \in 1..Len(handler.calls) : handler.calls[i].op = op}
    IN IF idx = {} THEN <<>> ELSE handler.calls[CHOOSE i \in idx : TRUE].ret

Done == handler.pc = "done"

\* The decoded request, computed from the raw body of the request.
Decoded == decode_data(handler.body)

\* The collaborators of the pipeline with the stage each belongs to.
Collaborators ==
    << [op |-> "extract_auth_info", stage |-> 2],
       [op |-> "get_project_by_id", stage |-> 4],
       [op |-> "check_auth",        stage |-> 5],
       [op |-> "decode_data",       stage |-> 6],
       [op |-> "validate_req",      stage |-> 7],
       [op |-> "validate_params",   stage |-> 9],
       [op |-> "process_call",      stage |-> 10] >>

RECURSIVE OpsUpTo(_, _)
\* The collaborators i.. of the pipeline whose stage is at most k, in order.
OpsUpTo(i, k) ==
    IF i > Len(Collaborators) THEN <<>>
    ELSE IF Collaborators[i].stage <= k
         THEN <<Collaborators[i].op>> \o OpsUpTo(i + 1, k)
         ELSE OpsUpTo(i + 1, k)

\* The stage a finished invocation ended in, read off its outcome: the fault
\* raised (status, log message) or, for a Response, the request itself.
EndStage ==
    IF handler.faults # <<>>
    THEN LET f == handler.faults[1]
         IN CASE f.log_message = "empty request"        -> 1
              [] f.log_message = "no auth header found" -> 2
              [] f.log_message = "unauthorized" /\ ~Called("get_project_by_id") -> 3
              [] f.log_message = "registry error"       -> 4
              [] f.log_message = "project not found"    -> 4
              [] f.log_message = "no request body"      -> 5
              [] f.log_message = "verifier error"       -> 5
              [] f.log_message = "unauthorized" /\ Called("get_project_by_id") -> 5
              [] f.log_message = "malformed data"       -> 6
              [] OTHER -> 0
    ELSE IF validate_req_schema(Decoded) # None THEN 7
    ELSE IF Decoded.method \notin DOMAIN admin_params_schema THEN 8
    ELSE IF validate_params(Decoded.params, Decoded.method) # None THEN 9
    ELSE 10

\* The stage a suspended invocation waits in.
WaitStage ==
    CASE handler.pc = "get_project_by_id" -> 4
      [] handler.pc = "check_auth"        -> 5
      [] handler.pc = "process_call"      -> 10
      [] OTHER -> 0

\* C1: the collaborators are invoked in the order of the stages, each at most
\* once and none skipped; an invocation that ended in stage k has invoked
\* exactly the collaborators of stages 1..k (followed by json_response when
\* it answered with a Response) and none of a later stage; a suspended
\* invocation has invoked exactly those up to the stage it waits in.
C1_StagesInOrder ==
    /\ handler.pc = "start" => handler.calls = <<>>
    /\ WaitStage # 0 => CallOps = OpsUpTo(1, WaitStage)
    /\ Done =>
         /\ EndStage # 0
         /\ Len(handler.faults) + Len(handler.sent) = 1
         /\ CallOps = OpsUpTo(1, EndStage) \o
                        (IF handler.sent # <<>> THEN <<"json_response">> ELSE <<>>)
         /\ handler.sent # <<>> => EndStage >= 7
         /\ handler.faults # <<>> => EndStage <= 6

\* C1 witness: the verifier rejected the signature of a request whose body
\* would decode, validate and dispatch; the invocation ended there.
C1_Witness ==
    /\ Done
    /\ handler.body = "E-sub"
    /\ Ret("check_auth") = <<FALSE, None>>
    /\ EndStage = 5

\* The status code fixed for the first stage of 1-6 that fails, 0 when none
\* fails, from the request and from what the collaborators answered.
ExpectedStatus ==
    LET ex == extract_auth_info(handler.headers)
        gp == Ret("get_project_by_id")
        ca == Ret("check_auth")
    IN IF handler.body = "" THEN 400
       ELSE IF Truthy(ex.error) THEN 401
       ELSE IF ~Truthy(ex.auth_info.sign) THEN 401
       ELSE IF gp = <<>> THEN 0
       ELSE IF Truthy(gp[2]) THEN 500
       ELSE IF gp[1] = None THEN 404
       ELSE IF ca = <<>> THEN 0
       ELSE IF Truthy(ca[2]) THEN 500
       ELSE IF ~ca[1] THEN 401
       ELSE IF Decoded.kind = "None" THEN 400
       ELSE 0

\* C2: a finished invocation whose request fails one of the stages 1-6 ended
\* with the status code of the first failing stage and sent no Response.
C2_StatusOfFirstFailingStage ==
    (Done /\ ExpectedStatus # 0) =>
        /\ Len(handler.faults) = 1
        /\ handler.faults[1].status = ExpectedStatus
        /\ handler.sent = <<>>
        /\ ~handler.has_response
        /\ ~Called("json_response")

\* C2 witness: the registry answered with an error and with no project; the
\* invocation ended with 500, not 404.
C2_Witness ==
    /\ Done
    /\ Ret("get_project_by_id") = <<None, "registry error">>
    /\ handler.faults = <<[status |-> 500, log_message |-> "registry error"]>>

\* The request has a body and auth data without a (non-empty) sign.
NoSign ==
    /\ handler.body # ""
    /\ ~Truthy(extract_auth_info(handler.headers).error)
    /\ ~Truthy(extract_auth_info(handler.headers).auth_info.sign)

\* C3: a request with a body and no sign is never taken past stage 3: no
\* project lookup, verification, decoding or dispatch is invoked for it, and
\* it ends unauthorized (401) whatever the body holds.
C3_NoSignIsUnauthorized ==
    NoSign =>
        /\ handler.pc \in {"start", "done"}
        /\ \A op \in {"get_project_by_id", "check_auth", "decode_data", "process_call"} :
              ~Called(op)
        /\ Done => /\ handler.faults = <<[status |-> 401, log_message |-> "unauthorized"]>>
                   /\ handler.sent = <<>>

\* C3 witness: an empty sign with a body that would decode and validate.
C3_Witness ==
    /\ NoSign
    /\ Done
    /\ handler.headers = "emptysign"
    /\ handler.body = "E-sub"
    /\ validate_req_schema(Decoded) = None

\* C4: check_auth is given the project the registry returned, the extracted
\* sign and the raw body of the request, and is called before decode_data;
\* when it answers (False, no error) the invocation ends unauthorized (401)
\* without decoding or dispatching.
C4_VerifyRawBodyBeforeDecode ==
    /\ \A i \in 1..Len(handler.calls) :
          handler.calls[i].op = "check_auth" =>
             /\ handler.calls[i].args =
                   << Ret("get_project_by_id")[1],
                      extract_auth_info(handler.headers).auth_info.sign,
                      handler.body >>
             /\ \A j \in 1..i : handler.calls[j].op # "decode_data"
    /\ Called("decode_data") => Called("check_auth") /\ Ret("check_auth") = <<TRUE, None>>
    /\ Ret("check_auth") = <<FALSE, None>> =>
          /\ Done
          /\ handler.faults = <<[status |-> 401, log_message |-> "unauthorized"]>>
          /\ handler.sent = <<>>
          /\ ~Called("decode_data") /\ ~Called("process_call")

\* C4 witness: the verifier rejected a request after being given its raw body.
C4_Witness ==
    /\ Called("check_auth")
    /\ Ret("check_auth") = <<FALSE, None>>
    /\ handler.encoded_data = handler.body
    /\ handler.body = "E-pub"
    /\ handler.faults # <<>>

\* The request passed stages 1-5: the verifier accepted its signature.
PassedVerification == Ret("check_auth") = <<TRUE, None>>

\* The Response a finished invocation sent, when it sent exactly one.
Sent == handler.sent[1]

\* C5 (as claimed): a request that passed stages 1-5 and whose body is
\* parseable is answered with a Response (no transport fault), with error
\* populated when the envelope is invalid; 400 "malformed data" is raised
\* only for a body that is not parseable.
C5_ParseableBodyGetsResponse ==
    (Done /\ PassedVerification) =>
        /\ Decoded.kind # "None" =>
              /\ handler.faults = <<>>
              /\ Len(handler.sent) = 1
              /\ validate_req_schema(Decoded) # None => Sent.error # None
        /\ handler.faults = <<[status |-> 400, log_message |-> "malformed data"]>> =>
              Decoded.kind = "None"

\* C6 (as claimed): a Response emitted after dispatch has exactly one of
\* body and error populated, whatever the processor returned.
C6_ExactlyOneOfBodyAndError ==
    (Done /\ Called("process_call")) =>
        /\ Len(handler.sent) = 1
        /\ (Sent.body # None) # (Sent.error # None)

\* The envelope failed the general request schema (stage 7 was reached).
EnvelopeInvalid ==
    /\ PassedVerification
    /\ TruthyData(Decoded)
    /\ validate_req_schema(Decoded) # None

\* C7: when the decoded value fails the request schema the Response carries
\* the validation message in error and nothing else (uid, method and body
\* unpopulated), and the processor is not invoked.
C7_InvalidEnvelopeResponse ==
    EnvelopeInvalid =>
        /\ Done
        /\ handler.faults = <<>>
        /\ handler.sent = <<[uid |-> None, method |-> None, body |-> None,
                             error |-> validate_req_schema(Decoded)]>>
        /\ ~Called("validate_params") /\ ~Called("process_call")

\* C7 witness: uid and method are present in the payload, params is not.
C7_Witness ==
    /\ EnvelopeInvalid
    /\ Decoded.uid = "u1" /\ Decoded.method = "subscribe" /\ Decoded.params = Missing
    /\ Len(handler.sent) = 1
    /\ Sent.error = "'params' is a required property"

\* The envelope is valid and names a method the registry does not hold.
MethodUnknown ==
    /\ PassedVerification
    /\ TruthyData(Decoded)
    /\ validate_req_schema(Decoded) = None
    /\ Decoded.method \notin DOMAIN admin_params_schema

\* C8: an unknown method is answered with error "method not found", uid and
\* method copied from the envelope and no body; neither the params schema
\* nor the processor is consulted.
C8_MethodNotFound ==
    MethodUnknown =>
        /\ Done
        /\ handler.faults = <<>>
        /\ handler.sent = <<[uid |-> Get(Decoded.uid), method |-> Decoded.method,
                             body |-> None, error |-> "method not found"]>>
        /\ ~Called("validate_params") /\ ~Called("process_call")

\* C8 witness: an unknown method in an envelope that carries a uid.
C8_Witness ==
    /\ MethodUnknown
    /\ Decoded.uid = "u1"
    /\ Len(handler.sent) = 1
    /\ Sent.uid = "u1" /\ Sent.method = "nosuch"

\* The envelope is valid, its method registered, its params rejected by the
\* schema registered for the method.
ParamsInvalid ==
    /\ PassedVerification
    /\ TruthyData(Decoded)
    /\ validate_req_schema(Decoded) = None
    /\ Decoded.method \in DOMAIN admin_params_schema
    /\ validate_params(Decoded.params, Decoded.method) # None

\* C9: params that fail the method's schema are answered with the validation
\* message in error, no body, uid and method copied from the envelope, and
\* the processor is not invoked.
C9_InvalidParamsResponse ==
    ParamsInvalid =>
        /\ Done
        /\ handler.faults = <<>>
        /\ handler.sent = <<[uid |-> Get(Decoded.uid), method |-> Decoded.method,
                             body |-> None,
                             error |-> validate_params(Decoded.params, Decoded.method)]>>
        /\ ~Called("process_call")

\* C9 witness: subscribe with a channel of the wrong type.
C9_Witness ==
    /\ ParamsInvalid
    /\ Decoded.method = "subscribe" /\ Decoded.params = "{channel:5}"
    /\ Len(handler.sent) = 1
    /\ Sent.body = None /\ Sent.error # None

\* C10: after dispatch the Response carries the uid and the method of the
\* decoded envelope (an absent uid stays unpopulated), both when the
\* processor succeeded and when it reported an error.
C10_UidAndMethodEchoed ==
    (Done /\ Called("process_call")) =>
        /\ Len(handler.sent) = 1
        /\ Sent.uid = Get(Decoded.uid)
        /\ Sent.method = Decoded.method
        /\ Sent.method \in DOMAIN admin_params_schema

\* C10 witness: the processor reported an error for an envelope with a uid.
C10_Witness ==
    /\ Done
    /\ Ret("process_call") = <<None, "processor error">>
    /\ Decoded.uid = "u2"
    /\ Sent.uid = "u2" /\ Sent.method = "publish"

\* The number of calls of op an invocation has made.
CallCount(h, op) == Cardinality({i \in 1..Len(h.calls) : h.calls[i].op = op})

\* The terminal outcomes an invocation has produced: transport faults plus
\* Responses handed to json_response.
Outcomes(h) == Len(h.faults) + Len(h.sent)

\* C11: an invocation produces no outcome while it runs or waits and exactly
\* one when it has ended: one transport fault with a status of 400, 401, 404
\* or 500 and no json_response call, or one json_response call with one
\* Response and no fault.
C11_ExactlyOneOutcome ==
    /\ ~Done => Outcomes(handler) = 0
    /\ Done => Outcomes(handler) = 1
    /\ CallCount(handler, "json_response") = Len(handler.sent)
    /\ \A i \in 1..Len(handler.faults) : handler.faults[i].status \in {400, 401, 404, 500}
    /\ handler.faults # <<>> => handler.sent = <<>>

\* C11 witness: an invocation that passed the verifier and ended with the
\* single fault of the decode stage, having sent no Response.
C11_Witness ==
    /\ Done
    /\ Ret("check_auth") = <<TRUE, None>>
    /\ handler.body = "%%"
    /\ handler.faults = <<[status |-> 400, log_message |-> "malformed data"]>>
    /\ handler.sent = <<>>

(***************************************************************************)
(* Reading the records of concurrent invocations.                          *)
(***************************************************************************)
RetOf(h, op) ==
    LET idx == {i \in 1..Len(h.calls) : h.calls[i].op = op}
    IN IF idx = {} THEN <<>> ELSE h.calls[CHOOSE i \in idx : TRUE].ret

\* The request an invocation was given.
RequestOf(h) == <<h.project_id, h.headers, h.body>>

\* The registry and the verifier answered two invocations alike: whatever
\* both were answered by the same collaborator is equal.
AnswersAlike(h1, h2) ==
    \A op \in {"get_project_by_id", "check_auth"} :
        \/ RetOf(h1, op) = <<>>
        \/ RetOf(h2, op) = <<>>
        \/ RetOf(h1, op) = RetOf(h2, op)

\* The stage 1-9 classification of a finished invocation: the fault raised,
\* or for a Response whether the processor was reached, the uid and method
\* echoed and the error of a stage 7-9 rejection (what the processor
\* returned is left out).
ClassOf(h) ==
    LET dispatched == CallCount(h, "process_call") > 0
    IN [faults     |-> h.faults,
        answered   |-> Len(h.sent),
        dispatched |-> dispatched,
        uid        |-> IF h.sent = <<>> THEN None ELSE h.sent[1].uid,
        method     |-> IF h.sent = <<>> THEN None ELSE h.sent[1].method,
        error      |-> IF h.sent = <<>> \/ dispatched THEN None ELSE h.sent[1].error]

\* C12: two finished invocations given identical requests, whose registry and
\* verifier answered alike, have the same stage 1-9 classification, however
\* their steps were interleaved.
C12_ReplayClassifiesAlike ==
    \A i, j \in Invocations :
        (/\ handlers[i].pc = "done" /\ handlers[j].pc = "done"
         /\ RequestOf(handlers[i]) = RequestOf(handlers[j])
         /\ AnswersAlike(handlers[i], handlers[j]))
        => ClassOf(handlers[i]) = ClassOf(handlers[j])

\* C12 witness: the same signed request twice, both stopped by the same
\* registry error after the registry had named the project.
C12_Witness ==
    /\ \A i \in {1, 2} :
          /\ handlers[i].pc = "done"
          /\ handlers[i].body = "E-sub" /\ handlers[i].headers = "sign=s1"
          /\ RetOf(handlers[i], "get_project_by_id") = <<"project-p1", "registry error">>
          /\ handlers[i].faults = <<[status |-> 500, log_message |-> "registry error"]>>

\* C19: an invocation none of whose suspension points hangs reaches its
\* terminal outcome, whatever the other invocations wait for; a hung one
\* stalls at its own suspension point only.
C19_HungInvocationStallsOnlyItself ==
    \A i \in Invocations : [](i \notin hung => <>(handlers[i].pc = "done"))

\* C19 witness: invocation 1 hangs in the project lookup while invocation 2,
\* entered with a signed request, has gone through all three suspension
\* points to its Response.
C19_Witness ==
    /\ 1 \in hung /\ 2 \notin hung
    /\ handlers[1].pc = "get_project_by_id"
    /\ handlers[2].pc = "done"
    /\ CallCount(handlers[2], "process_call") = 1
    /\ Len(handlers[2].sent) = 1

(***************************************************************************)
(* Reading the connections.                                                *)
(***************************************************************************)
\* The Clients created for connection c.
ClientsOf(c) == {k \in 1..Len(clients) : clients[k].conn = c}

\* The errors raised by a callback of connection c.
ErrorsIn(c, where) ==
    {i \in 1..Len(conns[c].errors) : conns[c].errors[i].where = where}

IsPrefix(s, t) == Len(s) <= Len(t) /\ \A i \in 1..Len(s) : s[i] = t[i]

\* C13 (as claimed): after on_open with an invalid or absent session no
\* Client was created for the connection or bound to it, no heartbeat was
\* started and the connection is CLOSED.
C13_InvalidSessionCreatesNoAgent ==
    \A c \in Conns :
        (conns[c].opened /\ conns[c].session = None) =>
            /\ ClientsOf(c) = {}
            /\ ~conns[c].has_client
            /\ conns[c].heartbeats = 0
            /\ conns[c].state = "CLOSED"

\* C14 (as claimed): for a connection opened with a valid session and then
\* closed, a close signal after the first one raises no error, does not
\* close the Client again and leaves the connection as it was.
C14_SecondCloseIsNoOp ==
    \A c \in Conns :
        (conns[c].session # None /\ conns[c].close_signals >= 2) =>
            /\ ErrorsIn(c, "on_close") = {}
            /\ \A k \in ClientsOf(c) : clients[k].closes = 1
            /\ ~conns[c].has_client
            /\ conns[c].state = "CLOSED"

\* C15 (as claimed): for a connection opened with a valid session, a message
\* delivered after on_close is dropped: it reaches no Client (the Client
\* holds only messages delivered before) and raises no error.
C15_LateMessageDropped ==
    \A c \in Conns :
        (conns[c].session # None /\ conns[c].close_signals >= 1) =>
            /\ ErrorsIn(c, "on_message") = {}
            /\ \A k \in ClientsOf(c) : IsPrefix(clients[k].received, conns[c].delivered)

\* C16: while a connection holds its Client, the Client has received exactly
\* the messages the transport delivered to the connection, each once and in
\* the order of delivery.
C16_MessagesForwardedInOrder ==
    \A c \in Conns :
        conns[c].has_client =>
            /\ conns[c].client \in ClientsOf(c)
            /\ clients[conns[c].client].received = conns[c].delivered
            /\ ErrorsIn(c, "on_message") = {}

\* C16 witness: an open connection that was given m1, m1, m2.
C16_Witness ==
    \E c \in Conns :
        /\ conns[c].state = "OPEN" /\ conns[c].has_client
        /\ conns[c].delivered = <<"m1", "m1", "m2">>
        /\ clients[conns[c].client].received = <<"m1", "m1", "m2">>

\* C17: once on_close has run for a connection its Client was closed exactly
\* once, the close came before the unbinding, and the connection holds no
\* Client; before on_close the Client is not closed.
C17_CloseThenUnbind ==
    \A c \in Conns :
        /\ conns[c].close_signals = 0 =>
              /\ \A k \in ClientsOf(c) : clients[k].closes = 0
              /\ conns[c].events = <<>>
        /\ conns[c].close_signals >= 1 =>
              /\ ClientsOf(c) # {}
              /\ \A k \in ClientsOf(c) : clients[k].closes = 1
              /\ conns[c].events = <<"client.close", "del client">>
              /\ ~conns[c].has_client

\* C17 witness: an open connection with a message received, then closed.
C17_Witness ==
    \E c \in Conns :
        /\ conns[c].session = "websocket"
        /\ conns[c].close_signals = 1
        /\ conns[c].delivered = <<"m2">>
        /\ ErrorsIn(c, "on_message") = {}
        /\ ~conns[c].has_client
        /\ \E k \in ClientsOf(c) : clients[k].closes = 1 /\ clients[k].received = <<"m2">>

\* C18: after on_open with a valid session exactly one Client was created
\* for the connection, the heartbeat was started once if the transport is
\* not rawwebsocket and not at all if it is, and on_open did not close the
\* connection; until a close signal the Client is bound and the connection
\* is OPEN.
C18_ValidSessionOpens ==
    \A c \in Conns :
        (conns[c].opened /\ conns[c].session # None) =>
            /\ Cardinality(ClientsOf(c)) = 1
            /\ conns[c].heartbeats = (IF conns[c].session # "rawwebsocket" THEN 1 ELSE 0)
            /\ conns[c].close_calls = 0
            /\ conns[c].close_signals = 0 =>
                  /\ conns[c].has_client
                  /\ conns[c].client \in ClientsOf(c)
                  /\ conns[c].state = "OPEN"
                  /\ clients[conns[c].client].closes = 0

\* C18 witness: two connections just opened, one over rawwebsocket with no
\* heartbeat and one over websocket with the heartbeat started.
C18_Witness ==
    /\ conns[1].opened /\ conns[1].session = "rawwebsocket"
    /\ conns[1].heartbeats = 0 /\ conns[1].has_client
    /\ conns[2].opened /\ conns[2].session = "websocket"
    /\ conns[2].heartbeats = 1 /\ conns[2].has_client
    /\ conns[1].client # conns[2].client

\* A callback of one connection leaves connection c alone: the Clients of c
\* are unchanged and no Client is created for c.
Untouched(c) ==
    /\ \A k \in ClientsOf(c) : clients'[k] = clients[k]
    /\ \A k \in (Len(clients) + 1)..Len(clients') : clients'[k].conn # c

\* C20: the Client a connection holds is one its own on_open created, and a
\* callback of one connection (open, message or close) changes only that
\* connection and its own Client: every other connection keeps its Client,
\* bound and unchanged.
C20_AgentOwnedByItsConnection ==
    /\ [](\A c \in Conns : conns[c].has_client => conns[c].client \in ClientsOf(c))
    /\ [][\A c \in Conns : conns'[c] = conns[c] => Untouched(c)]_vars
    /\ [][Cardinality({c \in Conns : conns'[c] # conns[c]}) <= 1]_vars

\* C20 witness: connection 1 was closed after receiving m1 while connection
\* 2 still holds its own Client, open, with m2 received and not closed.
C20_Witness ==
    /\ conns[1].close_signals = 1 /\ ~conns[1].has_client
    /\ conns[1].delivered = <<"m1">>
    /\ conns[2].has_client /\ conns[2].state = "OPEN"
    /\ clients[conns[2].client].conn = 2
    /\ clients[conns[2].client].received = <<"m2">>
    /\ clients[conns[2].client].closes = 0

====
